---- MODULE Spec2Model ----
(***************************************************************************)
(* file-routes: compiling a directory tree of source files into an ordered *)
(* table of URL routes.                                                    *)
(*                                                                         *)
(* Text is modelled as a sequence of one-character strings, so that the    *)
(* regular expression, the splits, the slices and the replacements of the  *)
(* source are computed character by character.                             *)
(***************************************************************************)
EXTENDS Naturals, Sequences, FiniteSets, TLC

VARIABLES
    framework,   \* the WebFramework of the DirectoryVisitor: "django" or "flask"
    extensions,  \* DirectoryVisitor.extensions
    pc,          \* where the running operation stands
    fs,          \* the directory tree: its chain of directory names and the files of the last
    todo,        \* os.walk: the directories still to visit, next first
    pending,     \* visit_one_directory: the routes built and not yet yielded
    yielded,     \* every route the walker has yielded so far, in order
    last,        \* the arguments of the latest visit_one_directory call and what it built
    discarded,   \* the CheckWarning objects constructed and stored nowhere
    source,      \* the modules the files of the tree define: filename -> module
    route_views, \* visit_and_analyze: the list it builds and returns
    sys_modules, \* sys.modules: the module identities registered
    loaded,      \* every load so far, in order: the identity written to sys.modules and the file executed
    routes,      \* the URL patterns assembled so far: the arguments handed to path()
    file_route,  \* the route being resolved
    inspected,   \* the InspectedModuleInfo of its module
    view,        \* what the resolution returned
    candidate_names, \* the candidate names handed to a finder called on its own
    segment,     \* expand_filename: the path segment handed in
    expanded     \* expand_filename: the (filename, was_transformed) it returned

walkVars == <<extensions, fs, todo, pending, yielded, last, discarded>>
analyzeVars == <<source, route_views, sys_modules, loaded, routes>>
resolveVars == <<file_route, inspected, view, candidate_names>>
expandVars == <<segment, expanded>>
vars == <<framework, pc, walkVars, analyzeVars, resolveVars, expandVars>>

(***************************************************************************)
(* Text helpers                                                            *)
(***************************************************************************)
\* None where a text is expected: no text is equal to it
None == <<"None">>

RECURSIVE Concat(_)
\* "".join(parts)
Concat(parts) ==
    IF parts = <<>> THEN <<>> ELSE Head(parts) \o Concat(Tail(parts))

\* s[i:] with a 0-based Python index i >= 0
From(s, i) == SubSeq(s, i + 1, Len(s))

\* s[:-n]
DropLast(s, n) == SubSeq(s, 1, Len(s) - n)

\* s.startswith(p)
StartsWith(s, p) == Len(s) >= Len(p) /\ SubSeq(s, 1, Len(p)) = p

\* the 1-based position of the first c in s at or after position i, 0 if none
RECURSIVE Find(_, _, _)
Find(s, c, i) ==
    IF i > Len(s) THEN 0
    ELSE IF s[i] = c THEN i
    ELSE Find(s, c, i + 1)

\* the 1-based position of the last c in s at or before position i, 0 if none
RECURSIVE FindLast(_, _, _)
FindLast(s, c, i) ==
    IF i = 0 THEN 0
    ELSE IF s[i] = c THEN i
    ELSE FindLast(s, c, i - 1)

\* s.split(c): the pieces of s between the occurrences of c
RECURSIVE Split(_, _)
Split(s, c) ==
    LET k == Find(s, c, 1)
    IN  IF k = 0 THEN <<s>>
        ELSE <<SubSeq(s, 1, k - 1)>> \o Split(SubSeq(s, k + 1, Len(s)), c)

\* sep.join(parts)
RECURSIVE Join(_, _)
Join(parts, sep) ==
    IF parts = <<>> THEN <<>>
    ELSE IF Len(parts) = 1 THEN parts[1]
    ELSE parts[1] \o sep \o Join(Tail(parts), sep)

\* s.replace(a, b) for one-character a and b
Replace(s, a, b) == [i \in 1..Len(s) |-> IF s[i] = a THEN b ELSE s[i]]

\* set(s)
CharsOf(s) == {s[i] : i \in 1..Len(s)}

(***************************************************************************)
(* The names the model's inputs are made of                                *)
(***************************************************************************)
T_int == <<"i", "n", "t">>
T_str == <<"s", "t", "r">>
T_slug == <<"s", "l", "u", "g">>
T_path == <<"p", "a", "t", "h">>
T_uuid == <<"u", "u", "i", "d">>
T_float == <<"f", "l", "o", "a", "t">>
T_string == <<"s", "t", "r", "i", "n", "g">>
T_bad == <<"b", "a", "d">>

(***************************************************************************)
(* Path Segment Transformer                                                *)
(***************************************************************************)
NoMatch == [matched |-> FALSE]

\* The first alternative of group 1, (?P<converter>[^_]+)_ followed by
\* (?P<name>[^]]+)] : the converter is the greedy run of non-underscore
\* characters after the opening bracket, which must end at an underscore; the
\* name is the greedy run of characters other than "]" after it, which must
\* end at a "]". No shorter run can be followed by the required character, so
\* backtracking inside a run finds nothing else.
MatchWithConverter(s) ==
    LET u == Find(s, "_", 2)
        c == IF u = 0 THEN 0 ELSE Find(s, "]", u + 1)
    IN  IF u > 2 /\ c > u + 1
        THEN [matched |-> TRUE,
              converter |-> SubSeq(s, 2, u - 1),
              name |-> SubSeq(s, u + 1, c - 1)]
        ELSE NoMatch

\* The second, empty alternative of group 1: the converter group does not
\* take part (None) and the name is the run up to the first "]".
MatchWithoutConverter(s) ==
    LET c == Find(s, "]", 2)
    IN  IF c > 2
        THEN [matched |-> TRUE, converter |-> None, name |-> SubSeq(s, 2, c - 1)]
        ELSE NoMatch

\* RE_WILDCARD.match(s): anchored at the start of s only; the alternatives of
\* group 1 are tried in the order they are written.
RE_WILDCARD(s) ==
    IF s = <<>> \/ s[1] # "[" THEN NoMatch
    ELSE IF MatchWithConverter(s).matched THEN MatchWithConverter(s)
    ELSE MatchWithoutConverter(s)

\* django.urls.converters.get_converters().keys()
ALL_CONVERTERS == {T_int, T_path, T_slug, T_str, T_uuid}

\* the list FlaskWebFramework.expand_wildcards tests the name against
FLASK_CONVERTERS == {T_int, T_float, T_path, T_string, T_uuid}

\* f"<{converter}:{name}>"
Placeholder(converter, name) == <<"<">> \o converter \o <<":">> \o name \o <<">">>

\* expand_wildcards that never takes the name for a converter
ExpandAlwaysStr(filename, match) ==
    Placeholder(IF match.converter = None THEN T_str ELSE match.converter, match.name)

\* DjangoWebFramework.expand_wildcards
DjangoExpandWildcards(filename, match) ==
    LET converter ==
            IF match.converter = None
            THEN IF match.name \in ALL_CONVERTERS THEN match.name ELSE T_str
            ELSE match.converter
    IN  Placeholder(converter, match.name)

\* FlaskWebFramework.expand_wildcards
FlaskExpandWildcards(filename, match) ==
    LET converter ==
            IF match.converter = None
            THEN IF match.name \in FLASK_CONVERTERS THEN match.name ELSE T_string
            ELSE match.converter
    IN  Placeholder(converter, match.name)

\* self.framework.expand_wildcards(filename, match)
expand_wildcards(fw, filename, match) ==
    IF fw = "django" THEN DjangoExpandWildcards(filename, match)
    ELSE FlaskExpandWildcards(filename, match)

\* DirectoryVisitor.expand_filename: (filename, was_transformed)
expand_filename(fw, filename) ==
    LET match == RE_WILDCARD(filename)
    IN  IF match.matched
        THEN <<expand_wildcards(fw, filename, match), TRUE>>
        ELSE <<filename, FALSE>>

Frameworks == {"django", "flask"}

\* the converter set of the adapter and its generic string converter
KnownConverters(fw) == IF fw = "django" THEN ALL_CONVERTERS ELSE FLASK_CONVERTERS
DefaultConverter(fw) == IF fw = "django" THEN T_str ELSE T_string

(***************************************************************************)
(* Directory Tree Walker                                                   *)
(***************************************************************************)
FORBIDDEN_FILENAME_CHARS == {"<", ">", ":", "\"", "/", "\\", "|", "?", "*"}

\* utils.route_contains_invalid_characters: set(module_name) - FORBIDDEN_FILENAME_CHARS
route_contains_invalid_characters(module_name) ==
    CharsOf(module_name) \ FORBIDDEN_FILENAME_CHARS

\* one step of posixpath.join
PathJoin2(a, b) ==
    IF StartsWith(b, <<"/">>) THEN b
    ELSE IF a = <<>> \/ a[Len(a)] = "/" THEN a \o b
    ELSE a \o <<"/">> \o b

RECURSIVE PathJoinFrom(_, _)
PathJoinFrom(path, rest) ==
    IF rest = <<>> THEN path
    ELSE PathJoinFrom(PathJoin2(path, Head(rest)), Tail(rest))

\* os.path.join(*parts), parts not empty
os_path_join(parts) == PathJoinFrom(Head(parts), Tail(parts))

\* directory_expand_converters with the per-segment expansion left out
DirectoryRouteUnexpanded(fw, directory_route) ==
    IF StartsWith(directory_route, <<"/">>) THEN From(directory_route, 1)
    ELSE directory_route

\* DirectoryVisitor.directory_expand_converters
directory_expand_converters(fw, directory_route) ==
    LET stripped == IF StartsWith(directory_route, <<"/">>)
                    THEN From(directory_route, 1)
                    ELSE directory_route
        split == Split(stripped, "/")
        parts == [i \in 1..Len(split) |-> expand_filename(fw, split[i])[1]]
    IN  os_path_join(parts)

\* os.path.basename and os.path.dirname
basename(path) == SubSeq(path, FindLast(path, "/", Len(path)) + 1, Len(path))
dirname(path) == SubSeq(path, 1, FindLast(path, "/", Len(path)) - 1)

FileRouteInfo(name, filename, is_wildcard) ==
    [name |-> name, filename |-> filename, is_wildcard |-> is_wildcard]

\* a CheckWarning: its code and what its message is about
CheckWarning(code, about) == [code |-> code, about |-> about]

S_init == <<"_", "_", "i", "n", "i", "t", "_", "_">>
S_index == <<"i", "n", "d", "e", "x">>
T_py == <<"p", "y">>

\* RouteNameOf without the trailing separator of an index route
RouteNameIndexBare(fw, directory_route, module_name) ==
    IF module_name = S_index THEN <<directory_route, FALSE>>
    ELSE LET e == expand_filename(fw, module_name)
         IN  <<IF directory_route # <<>>
               THEN directory_route \o <<"/">> \o e[1]
               ELSE e[1],
               e[2]>>

\* the route name and the wildcard flag visit_one_directory gives to a stem
\* that is not __init__
RouteNameOf(fw, directory_route, module_name) ==
    IF module_name = S_index
    THEN <<IF directory_route # <<>> THEN directory_route \o <<"/">> ELSE directory_route,
           FALSE>>
    ELSE LET e == expand_filename(fw, module_name)
         IN  <<IF directory_route # <<>>
               THEN directory_route \o <<"/">> \o e[1]
               ELSE e[1],
               e[2]>>

SkipNothing(module_name) == FALSE

\* whether the loop body leaves a file out: "if module_name == '__init__': continue"
IsSkippedStem(module_name) == module_name = S_init

\* One pass of the loop body of visit_one_directory over filename. acc holds
\* normal_routes, wildcard_routes, the CheckWarning objects constructed, and
\* whether the unpacking of filename.rsplit(".") raised ValueError.
VisitFile(fw, directory, directory_route, filename, exts, acc) ==
    LET parts == Split(filename, ".")
    IN  IF Len(parts) # 2 THEN [acc EXCEPT !.raised = TRUE]
        ELSE
        LET module_name == parts[1]
            ext == parts[2]
            bad_chars == route_contains_invalid_characters(module_name)
            warned == IF bad_chars # {}
                      THEN Append(acc.discarded, CheckWarning("W005", filename))
                      ELSE acc.discarded
            r == RouteNameOf(fw, directory_route, module_name)
            info == FileRouteInfo(r[1], os_path_join(<<directory, filename>>), r[2])
        IN  IF ext \notin exts THEN acc
            ELSE IF IsSkippedStem(module_name) THEN [acc EXCEPT !.discarded = warned]
            ELSE IF r[2]
            THEN [acc EXCEPT !.discarded = warned,
                             !.wildcard_routes = Append(@, info)]
            ELSE [acc EXCEPT !.discarded = warned,
                             !.normal_routes = Append(@, info)]

RECURSIVE VisitFiles(_, _, _, _, _, _)
\* the for loop of visit_one_directory; it ends where the loop body raises
VisitFiles(fw, directory, directory_route, filenames, exts, acc) ==
    IF filenames = <<>> \/ acc.raised THEN acc
    ELSE VisitFiles(fw, directory, directory_route, Tail(filenames), exts,
                    VisitFile(fw, directory, directory_route, Head(filenames), exts, acc))

YieldWildcardFirst(normal_routes, wildcard_routes) == wildcard_routes \o normal_routes

\* "yield from normal_routes; yield from wildcard_routes"
YieldOrder(normal_routes, wildcard_routes) == normal_routes \o wildcard_routes

\* DirectoryVisitor.visit_one_directory: what it yields, in order (nothing when
\* the loop raised: the yields come after the loop)
visit_one_directory(fw, directory, directory_route, filenames, exts) ==
    LET acc == VisitFiles(fw, directory, directory_route, filenames, exts,
                          [normal_routes |-> <<>>, wildcard_routes |-> <<>>,
                           discarded |-> <<>>, raised |-> FALSE])
    IN  [raised |-> acc.raised,
         discarded |-> acc.discarded,
         yields |-> IF acc.raised THEN <<>>
                    ELSE YieldOrder(acc.normal_routes, acc.wildcard_routes)]

PYCACHE == <<"_", "_", "p", "y", "c", "a", "c", "h", "e", "_", "_">>

\* dirs.remove("__pycache__") guarded by "if '__pycache__' in dirs"
RECURSIVE RemovePycache(_)
RemovePycache(dirs) ==
    IF dirs = <<>> THEN <<>>
    ELSE IF Head(dirs) = PYCACHE THEN Tail(dirs)
    ELSE <<Head(dirs)>> \o RemovePycache(Tail(dirs))

\* the directory handed to the walker
Directory == <<"r">>

(***************************************************************************)
(* The directory trees of the model: a chain of at most MaxDepth nested    *)
(* directories under the root, given by the names of the chain and the     *)
(* files of its last directory. Every directory lists a __pycache__; a     *)
(* directory that is not the last holds one file, named like its           *)
(* subdirectory; the last holds at most MaxFiles files.                    *)
(***************************************************************************)
MaxDepth == 2
MaxFiles == 2

DotPy(stem) == stem \o <<".">> \o T_py

D_blog == <<"b", "l", "o", "g">>
D_int_year == <<"[", "i", "n", "t", "_", "y", "e", "a", "r", "]">>

DirNames == {D_blog, D_int_year}

F_normal == <<"n", "o", "r", "m", "a", "l", ".", "p", "y">>
F_str == <<"[", "s", "t", "r", "]", ".", "p", "y">>
F_index == <<"i", "n", "d", "e", "x", ".", "p", "y">>
F_init == <<"_", "_", "i", "n", "i", "t", "_", "_", ".", "p", "y">>
F_int_id == <<"[", "i", "n", "t", "_", "i", "d", "]", ".", "p", "y">>
F_readme == <<"R", "E", "A", "D", "M", "E">>
F_txt == <<"n", "o", "t", "e", "s", ".", "t", "x", "t">>
F_inner == <<"f", "o", "o", "[", "i", "d", "]", ".", "p", "y">>
F_pyc == <<"i", "n", "d", "e", "x", ".", "c", "p", ".", "p", "y", "c">>

FileNames ==
    {F_normal, F_str, F_index, F_init, F_int_id, F_readme, F_txt, F_inner}

\* the lists of at most n distinct names
Listings(names, n) ==
    {l \in UNION {[1..k -> names] : k \in 0..n} :
        \A i, j \in 1..Len(l) : i # j => l[i] # l[j]}

Chains == UNION {[1..k -> DirNames] : k \in 0..MaxDepth}

\* the path of the k-th directory of the chain, the root being the 0th
DirPath(chain, k) == os_path_join(<<Directory>> \o SubSeq(chain, 1, k))

\* the directories of the tree, __pycache__ directories left out
Directories(tree) == {DirPath(tree.chain, k) : k \in 0..Len(tree.chain)}

\* what os.walk lists in directory d of the tree: (dirs, filenames)
Listing(tree, d) ==
    IF basename(d) = PYCACHE THEN [dirs |-> <<>>, filenames |-> <<F_pyc>>]
    ELSE LET k == CHOOSE k \in 0..Len(tree.chain) : DirPath(tree.chain, k) = d
         IN  IF k = Len(tree.chain)
             THEN [dirs |-> <<PYCACHE>>, filenames |-> tree.leaf]
             ELSE [dirs |-> <<PYCACHE, tree.chain[k + 1]>>,
                   filenames |-> <<DotPy(tree.chain[k + 1])>>]

Trees(names) ==
    {[chain |-> chain, leaf |-> leaf] :
        chain \in Chains, leaf \in Listings(names, MaxFiles)}

NoVisit == [visited |-> FALSE]

\* One iteration of the loop of collect_routes_from_directory over os.walk:
\* the next directory is listed, __pycache__ is pruned, and visit_one_directory
\* runs up to its first yield. os.walk descends into the remaining dirs only
\* after the routes of this directory have been consumed.
WalkDirectory ==
    /\ pc = "walk"
    /\ pending = <<>>
    /\ todo # <<>>
    /\ LET subdirectory == Head(todo)
           dirs == RemovePycache(Listing(fs, subdirectory).dirs)
           filenames == Listing(fs, subdirectory).filenames
           relative == From(subdirectory, Len(Directory))
           directory_route == directory_expand_converters(framework, relative)
           visit == visit_one_directory(framework, subdirectory, directory_route,
                                        filenames, extensions)
       IN  /\ todo' = [i \in 1..Len(dirs) |-> os_path_join(<<subdirectory, dirs[i]>>)]
                      \o Tail(todo)
           /\ pending' = visit.yields
           /\ discarded' = discarded \o visit.discarded
           /\ last' = [visited |-> TRUE,
                       directory |-> subdirectory,
                       directory_route |-> directory_route]
           /\ pc' = IF visit.raised THEN "raised" ELSE "walk"
    /\ UNCHANGED <<framework, extensions, fs, yielded>>

IdleExpand == segment = <<>> /\ expanded = <<>>

\* no route under analysis, no module inspected
NoRoute == [name |-> None]

NoModule == [name |-> None]

IdleResolve ==
    /\ file_route = NoRoute /\ inspected = NoModule /\ view = [kind |-> "none"]
    /\ candidate_names = <<>>

IdleAnalyze ==
    /\ source = <<>> /\ route_views = <<>> /\ sys_modules = {} /\ loaded = <<>>
    /\ routes = <<>>

IdleWalk ==
    /\ extensions = {T_py}
    /\ fs = <<>>
    /\ todo = <<>>
    /\ pending = <<>>
    /\ yielded = <<>>
    /\ last = NoVisit
    /\ discarded = <<>>

(***************************************************************************)
(* list(collect_routes_from_directory(directory, extensions)): the walker  *)
(* alone, its routes consumed one by one.                                  *)
(***************************************************************************)
InitWalk ==
    /\ framework \in Frameworks
    /\ extensions = {T_py}
    /\ pc = "walk"
    /\ fs \in Trees(FileNames)
    /\ todo = <<Directory>>
    /\ pending = <<>>
    /\ yielded = <<>>
    /\ last = NoVisit
    /\ discarded = <<>>
    /\ IdleAnalyze
    /\ IdleResolve
    /\ IdleExpand

\* the consumer takes the next route the generator yields
Collect ==
    /\ pc = "walk"
    /\ pending # <<>>
    /\ yielded' = Append(yielded, Head(pending))
    /\ pending' = Tail(pending)
    /\ UNCHANGED <<framework, pc, extensions, fs, todo, last, discarded>>

\* os.walk is exhausted: the generator ends
WalkDone ==
    /\ pc = "walk"
    /\ pending = <<>>
    /\ todo = <<>>
    /\ pc' = "done"
    /\ UNCHANGED <<framework, walkVars>>

NextWalk ==
    \/ WalkDirectory /\ UNCHANGED <<analyzeVars, resolveVars, expandVars>>
    \/ Collect /\ UNCHANGED <<analyzeVars, resolveVars, expandVars>>
    \/ WalkDone /\ UNCHANGED <<analyzeVars, resolveVars, expandVars>>

SpecWalk == InitWalk /\ [][NextWalk]_vars

(***************************************************************************)
(* expand_filename on its own: the segments are every concatenation of at  *)
(* most MaxAtoms atoms.                                                    *)
(***************************************************************************)
MaxAtoms == 5

Atoms == {<<"[">>, <<"]">>, <<"_">>, T_int, T_slug, T_bad}

Segments == UNION {{Concat(a) : a \in [1..n -> Atoms]} : n \in 1..MaxAtoms}

InitExpand ==
    /\ framework \in Frameworks
    /\ pc = "segment"
    /\ segment \in Segments
    /\ expanded = <<>>
    /\ IdleWalk
    /\ IdleAnalyze
    /\ IdleResolve

ExpandFilename ==
    /\ pc = "segment"
    /\ expanded' = expand_filename(framework, segment)
    /\ pc' = "expanded"
    /\ UNCHANGED <<framework, segment, walkVars, analyzeVars, resolveVars>>

NextExpand == ExpandFilename

SpecExpand == InitExpand /\ [][NextExpand]_vars

(***************************************************************************)
(* Claims about expand_filename                                            *)
(***************************************************************************)
\* a name or converter token as it stands inside a bracket: not empty and
\* free of the characters the bracket syntax itself uses
IsToken(t) == t # <<>> /\ CharsOf(t) \cap {"[", "]", "_"} = {}

\* the segment is [name]: no converter token
IsBracketName(s) ==
    /\ Len(s) >= 3
    /\ s[1] = "["
    /\ s[Len(s)] = "]"
    /\ IsToken(SubSeq(s, 2, Len(s) - 1))

BracketName(s) == SubSeq(s, 2, Len(s) - 1)

\* the segment is [converter_name]
IsBracketConverterName(s) ==
    /\ Len(s) >= 5
    /\ s[1] = "["
    /\ s[Len(s)] = "]"
    /\ \E u \in 3..(Len(s) - 2) :
           /\ s[u] = "_"
           /\ IsToken(SubSeq(s, 2, u - 1))
           /\ IsToken(SubSeq(s, u + 1, Len(s) - 1))

ConverterOf(s) == SubSeq(s, 2, Find(s, "_", 1) - 1)
NameOf(s) == SubSeq(s, Find(s, "_", 1) + 1, Len(s) - 1)

\* C3 as stated: every segment [name] without a converter token is expanded
\* as a wildcard whose placeholder uses the adapter's default (string)
\* converter, also when the name equals a converter token.
C3_DefaultConverterForEveryName ==
    (pc = "expanded" /\ IsBracketName(segment)) =>
        expanded = <<Placeholder(DefaultConverter(framework), BracketName(segment)),
                     TRUE>>

\* C3 as amended: every segment [name] without a converter token is expanded
\* as a wildcard; the placeholder uses the adapter's default (string)
\* converter unless the name itself is one of the adapter's converter tokens,
\* and then the name is used as the converter too (<int:int>).
C3_DefaultConverterUnlessNameIsConverter ==
    (pc = "expanded" /\ IsBracketName(segment)) =>
        LET name == BracketName(segment)
            converter == IF name \in KnownConverters(framework)
                         THEN name
                         ELSE DefaultConverter(framework)
        IN  expanded = <<Placeholder(converter, name), TRUE>>

\* C3 witness: [bad] has been expanded by the Django adapter to <str:bad>.
C3_Witness ==
    /\ pc = "expanded"
    /\ framework = "django"
    /\ segment = <<"[">> \o T_bad \o <<"]">>
    /\ expanded = <<Placeholder(T_str, T_bad), TRUE>>

\* C4: a segment [converter_name] whose converter token the adapter does not
\* know is expanded to a placeholder with the adapter's generic string
\* converter, never with the unknown token.
C4_UnknownConverterDegrades ==
    (/\ pc = "expanded"
     /\ IsBracketConverterName(segment)
     /\ ConverterOf(segment) \notin KnownConverters(framework)) =>
        expanded = <<Placeholder(DefaultConverter(framework), NameOf(segment)), TRUE>>
(***************************************************************************)
(* Claims about the walker                                                 *)
(***************************************************************************)
\* the position of x in the list l, 0 if it is not there
RECURSIVE IndexIn(_, _, _)
IndexIn(l, x, i) ==
    IF i > Len(l) THEN 0
    ELSE IF l[i] = x THEN i
    ELSE IndexIn(l, x, i + 1)

\* where the directory listing of its directory has the file of route r
ListedAt(r) == IndexIn(Listing(fs, dirname(r.filename)).filenames, basename(r.filename), 1)

\* the stem of the source file of route r
StemOf(r) == Split(basename(r.filename), ".")[1]

\* C1: visit_one_directory yields a stable partition of the routes of one
\* directory: of two routes of the same directory, a wildcard route is never
\* yielded before a non-wildcard one, and two routes of the same group are
\* yielded in the order in which the directory listing has their files.
C1_StablePartition ==
    \A i, j \in 1..Len(yielded) :
        (i < j /\ dirname(yielded[i].filename) = dirname(yielded[j].filename)) =>
            /\ yielded[i].is_wildcard => yielded[j].is_wildcard
            /\ (yielded[i].is_wildcard = yielded[j].is_wildcard) =>
                   ListedAt(yielded[i]) < ListedAt(yielded[j])

\* C1 witness: the root lists [str].py before normal.py, and the walker has
\* yielded the route normal and then the route of [str].
C1_Witness ==
    /\ pc = "done"
    /\ Listing(fs, Directory).filenames = <<F_str, F_normal>>
    /\ Len(yielded) = 2
    /\ yielded[1].name = <<"n", "o", "r", "m", "a", "l">> /\ ~yielded[1].is_wildcard
    /\ basename(yielded[2].filename) = F_str /\ yielded[2].is_wildcard

\* a literal segment: no bracket in it
IsLiteral(s) == s # <<>> /\ CharsOf(s) \cap {"[", "]"} = {}

\* the segments of the path of route r below the root, the last one being the
\* stem of the file
PathSegments(r) ==
    LET below == Split(From(r.filename, Len(Directory) + 1), "/")
    IN  SubSeq(below, 1, Len(below) - 1) \o <<StemOf(r)>>

\* a literal segment, or [conv_name] with a converter the adapter knows
IsPlainSegment(s) ==
    \/ IsLiteral(s)
    \/ IsBracketConverterName(s) /\ ConverterOf(s) \in KnownConverters(framework)

PlainSegmentRoute(s) ==
    IF IsLiteral(s) THEN s ELSE Placeholder(ConverterOf(s), NameOf(s))

\* C2: the name of a route whose path is made of literal segments and of
\* segments [conv_name] with a known converter is the "/"-joined sequence of
\* the segments, a literal segment unchanged and a bracket segment, directory
\* or file stem alike, replaced by <conv:name>. (The stems index and __init__
\* are not literal segments: they are the walker's two special stems.)
C2_RouteNameIsJoinedSegments ==
    \A i \in 1..Len(yielded) :
        LET segs == PathSegments(yielded[i])
        IN  (/\ \A k \in 1..Len(segs) : IsPlainSegment(segs[k])
             /\ StemOf(yielded[i]) \notin {S_index, S_init}) =>
                yielded[i].name =
                    Join([k \in 1..Len(segs) |-> PlainSegmentRoute(segs[k])], <<"/">>)

\* C2 witness: blog/[int_year]/[int_id].py has been yielded as
\* blog/<int:year>/<int:id>.
C2_Witness ==
    \E i \in 1..Len(yielded) :
        /\ yielded[i].filename = <<"r", "/", "b", "l", "o", "g", "/", "[", "i", "n", "t", "_", "y", "e", "a", "r", "]", "/", "[", "i", "n", "t", "_", "i", "d", "]", ".", "p", "y">>
        /\ yielded[i].name = <<"b", "l", "o", "g", "/", "<", "i", "n", "t", ":", "y", "e", "a", "r", ">", "/", "<", "i", "n", "t", ":", "i", "d", ">">>

\* C5: an index file directly under the root gets the route name ""; under
\* another directory, whose computed route name is d, it gets d + "/", which
\* differs from the route name d of the sibling file named like the
\* directory; and an index route is never classified as a wildcard.
C5_IndexRoute ==
    last.visited =>
        \A i \in 1..Len(pending) :
            LET r == pending[i]
            IN  StemOf(r) = S_index =>
                    /\ ~r.is_wildcard
                    /\ last.directory = Directory => r.name = <<>>
                    /\ last.directory # Directory =>
                           /\ last.directory_route # <<>>
                           /\ r.name = last.directory_route \o <<"/">>
                           /\ \A j \in 1..Len(yielded) :
                                  yielded[j].filename = DotPy(last.directory) =>
                                      /\ yielded[j].name = last.directory_route
                                      /\ yielded[j].name # r.name

\* C5 witness: blog/[int_year]/index.py has got the route name blog/<int:year>/
\* after the sibling file blog/[int_year].py was yielded as blog/<int:year>.
C5_Witness ==
    /\ last.visited
    /\ last.directory = <<"r", "/", "b", "l", "o", "g", "/", "[", "i", "n", "t", "_", "y", "e", "a", "r", "]">>
    /\ \E i \in 1..Len(pending) :
           /\ StemOf(pending[i]) = S_index
           /\ pending[i].name = <<"b", "l", "o", "g", "/", "<", "i", "n", "t", ":", "y", "e", "a", "r", ">", "/">>
    /\ \E j \in 1..Len(yielded) :
           /\ yielded[j].filename = <<"r", "/", "b", "l", "o", "g", "/", "[", "i", "n", "t", "_", "y", "e", "a", "r", "]", ".", "p", "y">>
           /\ yielded[j].name = <<"b", "l", "o", "g", "/", "<", "i", "n", "t", ":", "y", "e", "a", "r", ">">>

\* C6: no route the walker yields has a source file whose stem is __init__,
\* at any depth.
C6_NoInitRoute ==
    \A i \in 1..Len(yielded) : StemOf(yielded[i]) # S_init

\* C6 witness: a directory below the root lists __init__.py and normal.py, the
\* walk is over, and normal.py is the only one of the two with a route.
C6_Witness ==
    /\ pc = "done"
    /\ last.directory # Directory
    /\ Listing(fs, last.directory).filenames = <<F_init, F_normal>>
    /\ yielded[Len(yielded)].filename = os_path_join(<<last.directory, F_normal>>)

(***************************************************************************)
(* One call of visit_one_directory, with the arguments                     *)
(* collect_routes_from_directory hands it for the last directory of a      *)
(* tree, on file names of every shape and two configurations of the        *)
(* extensions.                                                             *)
(***************************************************************************)
D_username == <<"[", "u", "s", "e", "r", "n", "a", "m", "e", "]">>

F_settings == <<"s", "e", "t", "t", "i", "n", "g", "s", ".", "p", "y">>
F_only_forbidden == <<"?", "*", ".", "p", "y">>
F_some_forbidden == <<"a", "?", ".", "p", "y">>
F_two_dots == <<"a", ".", "b", ".", "p", "y">>
F_tar_gz == <<"a", "r", "c", "h", "i", "v", "e", ".", "t", "a", "r", ".", "g", "z">>
F_trailing == <<"[", "i", "d", "]", "f", "o", "o", ".", "p", "y">>

T_txt == <<"t", "x", "t">>

OddNames ==
    {F_settings, F_index, F_init, F_only_forbidden, F_some_forbidden,
     F_readme, F_two_dots, F_tar_gz, F_txt, F_inner, F_trailing}

\* the directories of one call: the root, or [username] under it
OddTrees ==
    {[chain |-> chain, leaf |-> leaf] :
        chain \in {<<>>, <<D_username>>}, leaf \in Listings(OddNames, MaxFiles)}

InitVisitOne ==
    /\ framework \in Frameworks
    /\ extensions \in {{T_py}, {T_py, T_txt}}
    /\ pc = "call"
    /\ fs \in OddTrees
    /\ todo = <<>>
    /\ pending = <<>>
    /\ yielded = <<>>
    /\ last = NoVisit
    /\ discarded = <<>>
    /\ IdleAnalyze
    /\ IdleResolve
    /\ IdleExpand

\* visit_one_directory runs its loop and, unless the loop raised, yields
VisitOneDirectory ==
    /\ pc = "call"
    /\ LET directory == DirPath(fs.chain, Len(fs.chain))
           directory_route ==
               directory_expand_converters(framework, From(directory, Len(Directory)))
           visit == visit_one_directory(framework, directory, directory_route,
                                        fs.leaf, extensions)
       IN  /\ pending' = visit.yields
           /\ discarded' = visit.discarded
           /\ last' = [visited |-> TRUE,
                       directory |-> directory,
                       directory_route |-> directory_route]
           /\ pc' = IF visit.raised THEN "raised" ELSE "visited"
    /\ UNCHANGED <<framework, extensions, fs, todo, yielded>>

NextVisitOne ==
    VisitOneDirectory /\ UNCHANGED <<analyzeVars, resolveVars, expandVars>>

SpecVisitOne == InitVisitOne /\ [][NextVisitOne]_vars

(***************************************************************************)
(* Claims about one call of visit_one_directory                            *)
(***************************************************************************)
\* the file names of the call that pass the extension check: one dot, and
\* the part after it in the configured extensions
Accepted ==
    {k \in 1..Len(fs.leaf) :
        /\ Len(Split(fs.leaf[k], ".")) = 2
        /\ Split(fs.leaf[k], ".")[2] \in extensions}

\* the W005 diagnostic was created for file name f
HasW005(f) == \E j \in 1..Len(discarded) : discarded[j] = CheckWarning("W005", f)

\* a route was built for file name f of the visited directory
HasRoute(f) ==
    \E i \in 1..Len(pending) :
        pending[i].filename = os_path_join(<<last.directory, f>>)

\* C12: after a call that did not raise, for every accepted file name the
\* W005 diagnostic was created exactly when its stem holds a character of
\* the forbidden set, and with or without it the entry became a route
\* (unless it is __init__).
C12_W005IffForbiddenCharacter ==
    pc = "visited" =>
        \A k \in Accepted :
            LET f == fs.leaf[k]
                stem == Split(f, ".")[1]
            IN  /\ HasW005(f) <=> (CharsOf(stem) \cap FORBIDDEN_FILENAME_CHARS # {})
                /\ stem # S_init => HasRoute(f)

\* text s holds a bracket group: an opening bracket with a closing one after it
HasBracketGroup(s) ==
    \E i, j \in 1..Len(s) : i < j /\ s[i] = "[" /\ s[j] = "]"

\* text s holds a placeholder: "<", then ":", then ">"
HasPlaceholder(s) ==
    \E i, j, k \in 1..Len(s) : i < j /\ j < k /\ s[i] = "<" /\ s[j] = ":" /\ s[k] = ">"

\* C13: the name of every route the call yields holds no raw bracket, and
\* where the file stem holds a bracket group, with or without text around
\* it, the name ends in a segment that holds the adapter's placeholder.
C13_NoRawBracketInName ==
    \A i \in 1..Len(pending) :
        LET r == pending[i]
            segments == Split(r.name, "/")
        IN  /\ CharsOf(r.name) \cap {"[", "]"} = {}
            /\ (HasBracketGroup(StemOf(r)) /\ StemOf(r) # S_index) =>
                   HasPlaceholder(segments[Len(segments)])

\* C14: a route the call yields is a wildcard route exactly when some
\* segment of its path, a directory of the prefix or the file stem, is
\* transformed by expand_filename.
C14_WildcardIffSomeSegmentTransformed ==
    \A i \in 1..Len(pending) :
        LET r == pending[i]
            segments == PathSegments(r)
        IN  r.is_wildcard <=>
                \E k \in 1..Len(segments) : expand_filename(framework, segments[k])[2]

\* the extension of a file name: what follows its last dot, None without a dot
ExtensionOf(f) ==
    IF FindLast(f, ".", Len(f)) = 0 THEN None ELSE From(f, FindLast(f, ".", Len(f)))

\* C19: the call never raises; a file name whose extension is not configured,
\* a name without a dot included, gets no route; and a name whose extension
\* is configured (its stem not being __init__) gets a route, built from the
\* name with the extension stripped.
C19_UnlistedExtensionSkipped ==
    pc # "call" =>
        /\ pc = "visited"
        /\ \A k \in 1..Len(fs.leaf) :
               LET f == fs.leaf[k]
                   stem == DropLast(f, Len(ExtensionOf(f)) + 1)
               IN  IF ExtensionOf(f) \in extensions
                   THEN stem # S_init => HasRoute(f)
                   ELSE ~HasRoute(f)

(***************************************************************************)
(* Module Inspector and View Resolver                                      *)
(*                                                                         *)
(* A module is its attributes: a function from attribute names to the kind *)
(* of value bound to them. "NoneType" is the value None, "View" is the     *)
(* framework's view base class itself, "subclass" a class deriving from    *)
(* it, "class" any other class, "str" a string and "instance" any other    *)
(* object. A name outside the domain is not an attribute of the module.    *)
(***************************************************************************)
Values == {"NoneType", "function", "str", "instance", "class", "subclass", "View"}

\* inspect.isfunction, inspect.isclass
isfunction(value) == value = "function"
isclass(value) == value \in {"class", "subclass", "View"}
\* issubclass(value, View)
issubclass(value) == value \in {"subclass", "View"}

\* attributes.get(name) and getattr(module, name, None)
Get(attributes, name) ==
    IF name \in DOMAIN attributes THEN attributes[name] ELSE "NoneType"

\* inspection.inspect_module: the snapshot of the attributes, no warnings yet
inspect_module(module) ==
    [name |-> module.name, attributes |-> module.attributes, warnings |-> <<>>]

NoView == [kind |-> "none"]

RECURSIVE find_function_by_name(_, _, _)
\* InspectedModuleInfo.find_function_by_name: the function found (or NoView)
\* and the warnings list after the search
find_function_by_name(attributes, candidates, warnings) ==
    IF candidates = <<>> THEN [view |-> NoView, warnings |-> warnings]
    ELSE LET candidate == Head(candidates)
             function == Get(attributes, candidate)
         IN  IF function = "NoneType"
             THEN find_function_by_name(attributes, Tail(candidates), warnings)
             ELSE IF ~isfunction(function)
             THEN find_function_by_name(attributes, Tail(candidates),
                      Append(warnings, CheckWarning("W001", candidate)))
             ELSE [view |-> [kind |-> "function", name |-> candidate],
                   warnings |-> warnings]

RECURSIVE find_class_by_name(_, _, _)
\* InspectedModuleInfo.find_class_by_name with issubclass_of = View
find_class_by_name(attributes, candidates, warnings) ==
    IF candidates = <<>> THEN [view |-> NoView, warnings |-> warnings]
    ELSE LET candidate == Head(candidates)
             class_ == Get(attributes, candidate)
         IN  IF class_ = "NoneType"
             THEN find_class_by_name(attributes, Tail(candidates), warnings)
             ELSE IF ~isclass(class_)
             THEN find_class_by_name(attributes, Tail(candidates),
                      Append(warnings, CheckWarning("W002", candidate)))
             ELSE IF class_ = "View"
             THEN find_class_by_name(attributes, Tail(candidates), warnings)
             ELSE IF ~issubclass(class_)
             THEN find_class_by_name(attributes, Tail(candidates),
                      Append(warnings, CheckWarning("W003", candidate)))
             ELSE [view |-> [kind |-> "class", name |-> candidate],
                   warnings |-> warnings]

A_view == <<"v", "i", "e", "w">>
A_View == <<"V", "i", "e", "w">>
A_route_name == <<"r", "o", "u", "t", "e", "_", "n", "a", "m", "e">>

\* the function candidates of DjangoWebFramework.analyze and
\* FlaskWebFramework.analyze
AnalyzeFunctionNames(route) == <<A_view>>

\* the class candidates of the two analyze methods
AnalyzeClassNames(route) == <<A_View>>

\* WebFramework.analyze of the two adapters: function candidates, then class
\* candidates; a class found is bound with as_view. The Flask adapter reads
\* route_name with get_attribute_by_type(.., str, default=file_route.name),
\* whose CheckWarning (W006) is constructed and stored nowhere.
analyze(fw, route, inspected_module) ==
    LET f == find_function_by_name(inspected_module.attributes,
                                   AnalyzeFunctionNames(route),
                                   inspected_module.warnings)
        c == find_class_by_name(inspected_module.attributes,
                                AnalyzeClassNames(route), f.warnings)
        route_name == Get(inspected_module.attributes, A_route_name)
        wrong_type == /\ fw = "flask"
                      /\ A_route_name \in DOMAIN inspected_module.attributes
                      /\ route_name # "str"
    IN  IF f.view # NoView
        THEN [view |-> f.view, warnings |-> f.warnings, discarded |-> <<>>]
        ELSE IF c.view # NoView
        THEN [view |-> [kind |-> "as_view", name |-> c.view.name,
                        as_view_name |->
                            IF fw # "flask" THEN "none"
                            ELSE IF route_name = "str" THEN "route_name"
                            ELSE "file_route.name"],
              warnings |-> c.warnings,
              discarded |-> IF wrong_type
                            THEN <<CheckWarning("W006", A_route_name)>>
                            ELSE <<>>]
        ELSE [view |-> NoView, warnings |-> c.warnings, discarded |-> <<>>]

LOWERCASE ==
    <<"a", "b", "c", "d", "e", "f", "g", "h", "i", "j", "k", "l", "m",
      "n", "o", "p", "q", "r", "s", "t", "u", "v", "w", "x", "y", "z">>
UPPERCASE ==
    <<"A", "B", "C", "D", "E", "F", "G", "H", "I", "J", "K", "L", "M",
      "N", "O", "P", "Q", "R", "S", "T", "U", "V", "W", "X", "Y", "Z">>

\* str.upper and str.lower of one character
ToUpper(ch) ==
    IF \E i \in 1..Len(LOWERCASE) : LOWERCASE[i] = ch
    THEN UPPERCASE[CHOOSE i \in 1..Len(LOWERCASE) : LOWERCASE[i] = ch]
    ELSE ch
ToLower(ch) ==
    IF \E i \in 1..Len(UPPERCASE) : UPPERCASE[i] = ch
    THEN LOWERCASE[CHOOSE i \in 1..Len(UPPERCASE) : UPPERCASE[i] = ch]
    ELSE ch

\* str.capitalize: the first character upper case, the others lower case
Capitalize(s) == [i \in 1..Len(s) |-> IF i = 1 THEN ToUpper(s[i]) ELSE ToLower(s[i])]

\* underscore_to_camel_case: "".join(c.capitalize() or "_" for c in word.split("_"))
underscore_to_camel_case(word) ==
    LET pieces == Split(word, "_")
    IN  Concat([i \in 1..Len(pieces) |->
                   IF Capitalize(pieces[i]) = <<>> THEN <<"_">>
                   ELSE Capitalize(pieces[i])])

\* get_default_view_name(view_route) and FileRouteInfo.get_default_view_name
get_default_view_name(view_route) ==
    LET base_name == DropLast(basename(view_route.filename), 3)
    IN  IF view_route.name = <<>> \/ base_name = S_index THEN S_index
        ELSE IF ~view_route.is_wildcard THEN Replace(base_name, "-", "_")
        ELSE None

\* function_names of find_view: ["view"], then insert(0, ..) and insert(1, ..)
FindViewFunctionNames(default_view_name) ==
    IF default_view_name # None
    THEN <<default_view_name \o <<"_", "v", "i", "e", "w">>, default_view_name, A_view>>
    ELSE <<A_view>>

\* class_names of find_view: ["View"], then append(..)
FindViewClassNames(default_view_name) ==
    IF default_view_name # None
    THEN <<A_View, underscore_to_camel_case(default_view_name) \o A_View>>
    ELSE <<A_View>>

RECURSIVE FindViewFunction(_, _, _)
\* the first loop of find_view, over function_names
FindViewFunction(attributes, function_names, warned) ==
    IF function_names = <<>> THEN [view |-> NoView, discarded |-> warned]
    ELSE LET function_name == Head(function_names)
             view_ == Get(attributes, function_name)
         IN  IF view_ = "NoneType"
             THEN FindViewFunction(attributes, Tail(function_names), warned)
             ELSE IF ~isfunction(view_)
             THEN FindViewFunction(attributes, Tail(function_names),
                      Append(warned, CheckWarning("W001", function_name)))
             ELSE [view |-> [kind |-> "function", name |-> function_name],
                   discarded |-> warned]

RECURSIVE FindViewClass(_, _, _)
\* the second loop of find_view, over class_names
FindViewClass(attributes, class_names, warned) ==
    IF class_names = <<>> THEN [view |-> NoView, discarded |-> warned]
    ELSE LET class_name == Head(class_names)
             view_ == Get(attributes, class_name)
         IN  IF view_ = "NoneType"
             THEN FindViewClass(attributes, Tail(class_names), warned)
             ELSE IF view_ = "View"
             THEN FindViewClass(attributes, Tail(class_names), warned)
             ELSE IF ~isclass(view_)
             THEN FindViewClass(attributes, Tail(class_names),
                      Append(warned, CheckWarning("W002", class_name)))
             ELSE IF ~issubclass(view_)
             THEN FindViewClass(attributes, Tail(class_names),
                      Append(warned, CheckWarning("W003", class_name)))
             ELSE [view |-> [kind |-> "as_view", name |-> class_name,
                             as_view_name |-> "none"],
                   discarded |-> warned]

\* django_fs_routes.routes.find_view: the view and the checks.Warning objects
\* it constructs, none of which is stored
find_view(module, default_view_name) ==
    LET f == FindViewFunction(module.attributes,
                              FindViewFunctionNames(default_view_name), <<>>)
        c == FindViewClass(module.attributes,
                           FindViewClassNames(default_view_name), f.discarded)
    IN  IF f.view # NoView THEN f
        ELSE IF c.view # NoView THEN c
        ELSE [view |-> NoView,
              discarded |-> Append(c.discarded, CheckWarning("W004", module.name))]

\* inspection.filename_to_module_path: filename[:-3].replace("/", ".")
filename_to_module_path(filename) == Replace(DropLast(filename, 3), "/", ".")

(***************************************************************************)
(* View resolution on its own: one route, one module of at most MaxAttrs   *)
(* attributes, resolved by the adapter's analyze or by find_view.          *)
(***************************************************************************)
MaxAttrs == 3

F_home == <<"h", "o", "m", "e", ".", "p", "y">>
F_hyphen == <<"w", "i", "t", "h", "-", "h", "y", "p", "h", "e", "n", ".", "p", "y">>

ResolveFiles == {F_home, F_index, F_hyphen, F_str}

\* the route the walker builds for a file directly under the root
RootRoute(fw, filename) ==
    visit_one_directory(fw, Directory, <<>>, <<filename>>, {T_py}).yields[1]

\* the names the resolution of a route may look up
AttrNames(route) ==
    LET d == get_default_view_name(route)
        names == FindViewFunctionNames(d) \o FindViewClassNames(d)
    IN  {names[i] : i \in 1..Len(names)}

ModulesOf(route) ==
    {[name |-> filename_to_module_path(route.filename), attributes |-> a] :
        a \in UNION {[S -> Values] :
                        S \in {T \in SUBSET AttrNames(route) : Cardinality(T) <= MaxAttrs}}}

InitResolve ==
    /\ framework \in Frameworks
    /\ pc = "inspected"
    /\ file_route \in {RootRoute(framework, f) : f \in ResolveFiles}
    /\ inspected \in {inspect_module(m) : m \in ModulesOf(file_route)}
    /\ view = NoView
    /\ candidate_names = <<>>
    /\ IdleWalk
    /\ IdleAnalyze
    /\ IdleExpand

\* self.framework.analyze(file_route=file_route, inspected_module=inspected_module)
Analyze ==
    /\ pc = "inspected"
    /\ LET r == analyze(framework, file_route, inspected)
       IN  /\ view' = r.view
           /\ inspected' = [inspected EXCEPT !.warnings = r.warnings]
           /\ discarded' = discarded \o r.discarded
    /\ pc' = "analyzed"
    /\ UNCHANGED <<framework, file_route, candidate_names, extensions, fs, todo, pending,
                   yielded, last>>

\* find_view(module, default_view_name=get_default_view_name(view_route)),
\* the resolution of django_fs_routes
FindView ==
    /\ pc = "inspected"
    /\ framework = "django"
    /\ LET r == find_view(inspected, get_default_view_name(file_route))
       IN  /\ view' = r.view
           /\ discarded' = discarded \o r.discarded
    /\ pc' = "found"
    /\ UNCHANGED <<framework, file_route, inspected, candidate_names, extensions, fs, todo,
                   pending,
                   yielded, last>>

NextResolve ==
    \/ Analyze /\ UNCHANGED <<analyzeVars, expandVars>>
    \/ FindView /\ UNCHANGED <<analyzeVars, expandVars>>

SpecResolve == InitResolve /\ [][NextResolve]_vars

(***************************************************************************)
(* Claims about view resolution                                            *)
(***************************************************************************)
Resolved == pc \in {"analyzed", "found"}

\* the base name of a non-wildcard route: its file stem, hyphens as underscores
BaseOf(route) == Replace(Split(basename(route.filename), ".")[1], "-", "_")

\* the function names the convention gives to base name b, in priority order
ConventionFunctionNames(b) == <<b \o <<"_", "v", "i", "e", "w">>, b, A_view>>

\* the class names the convention gives to base name b, in priority order
ConventionClassNames(b) == <<underscore_to_camel_case(b) \o A_View, A_View>>

\* the first name of the list bound to a value of kind k in the module, None
\* if there is none
RECURSIVE FirstBound(_, _, _)
FirstBound(attributes, names, k) ==
    IF names = <<>> THEN None
    ELSE IF Get(attributes, Head(names)) = k THEN Head(names)
    ELSE FirstBound(attributes, Tail(names), k)

\* C7: for a non-wildcard route of base name b, the resolution returns the
\* first of b_view, b, view that is a plain function of the module.
C7_FunctionNamePriority ==
    (Resolved /\ ~file_route.is_wildcard) =>
        LET first == FirstBound(inspected.attributes,
                                ConventionFunctionNames(BaseOf(file_route)),
                                "function")
        IN  first # None => view = [kind |-> "function", name |-> first]

\* For find_view of django_fs_routes alone the priority of the function names
\* b_view, b, view holds.
C7_FindViewFunctionNamePriority ==
    (pc = "found" /\ ~file_route.is_wildcard) =>
        LET first == FirstBound(inspected.attributes,
                                ConventionFunctionNames(BaseOf(file_route)),
                                "function")
        IN  first # None => view = [kind |-> "function", name |-> first]

\* C8: a class is returned only when none of the function candidates is a
\* function, and then it is the first valid view class of PascalCase(b)+"View",
\* "View": the base-derived name is tried before the unconditional one.
C8_ClassNamePriority ==
    (Resolved /\ ~file_route.is_wildcard) =>
        LET b == BaseOf(file_route)
            function == FirstBound(inspected.attributes,
                                   ConventionFunctionNames(b), "function")
            class_ == FirstBound(inspected.attributes,
                                 ConventionClassNames(b), "subclass")
        IN  /\ view.kind = "as_view" => function = None
            /\ (function = None /\ class_ # None) =>
                   (view.kind = "as_view" /\ view.name = class_)

\* the warnings of the inspected module with code c
WarningsWithCode(c) ==
    {i \in 1..Len(inspected.warnings) : inspected.warnings[i].code = c}

\* the module has the attribute view, bound to something that is not a
\* function, and no other candidate of analyze matches
ViewIsNoFunction ==
    /\ pc = "analyzed"
    /\ A_view \in DOMAIN inspected.attributes
    /\ inspected.attributes[A_view] # "function"
    /\ Get(inspected.attributes, A_View) # "subclass"

\* C9 as stated: whatever the value bound to view, None included, when it is
\* not a function and no other candidate matches, the module's warnings hold
\* exactly one W001, about view, and the route resolves to none found.
C9_OneW001ForAnyNonFunction ==
    ViewIsNoFunction =>
        /\ Cardinality(WarningsWithCode("W001")) = 1
        /\ \A i \in WarningsWithCode("W001") : inspected.warnings[i].about = A_view
        /\ view = NoView

\* What find_function_by_name does guarantee: when view is bound to a value
\* that is neither a function nor None (a string, a class, an instance) and
\* no other candidate matches, the module's warnings hold exactly one W001,
\* about view, the search goes on to the class candidates (a View that is no
\* view class gets its own warning), and the route resolves to none found. A
\* view bound to None is passed over like a missing attribute: no W001.
C9_OneW001UnlessNone ==
    ViewIsNoFunction =>
        /\ view = NoView
        /\ inspected.attributes[A_view] = "NoneType" => WarningsWithCode("W001") = {}
        /\ inspected.attributes[A_view] # "NoneType" =>
               /\ Cardinality(WarningsWithCode("W001")) = 1
               /\ \A i \in WarningsWithCode("W001") :
                      inspected.warnings[i].about = A_view
        /\ Get(inspected.attributes, A_View) = "class" =>
               Cardinality(WarningsWithCode("W003")) = 1
        /\ Get(inspected.attributes, A_View) \in {"function", "str", "instance"} =>
               Cardinality(WarningsWithCode("W002")) = 1

(***************************************************************************)
(* DirectoryVisitor.visit_and_analyze                                      *)
(***************************************************************************)
\* what executing a source file leaves in its module; loads is FALSE for a
\* file whose execution raises
SRC_function == [loads |-> TRUE, attributes |-> (A_view :> "function")]
SRC_class == [loads |-> TRUE, attributes |-> (A_View :> "subclass")]
SRC_not_function == [loads |-> TRUE, attributes |-> (A_view :> "str")]
SRC_broken == [loads |-> FALSE, attributes |-> <<>>]

Sources == {SRC_function, SRC_class, SRC_not_function, SRC_broken}

\* the files of the last directory get every source; the others define view
SourceOf(filename) ==
    IF filename \in DOMAIN source THEN source[filename] ELSE SRC_function

\* an import that swallows the exception of exec_module and hands back the
\* empty module
ImportSwallowsFailure(filename) ==
    LET module_name == filename_to_module_path(filename)
    IN  [sys_modules |-> sys_modules \cup {module_name},
         loaded |-> Append(loaded, [module_name |-> module_name, filename |-> filename]),
         raised |-> FALSE,
         module |-> [name |-> module_name,
                     attributes |-> SourceOf(filename).attributes]]

\* inspection.import_filename_and_guess_module_from_path: a new module object
\* is made, written to sys.modules under the identity, and then the file is
\* executed in it, on every call
import_filename_and_guess_module_from_path(filename) ==
    LET module_name == filename_to_module_path(filename)
    IN  [sys_modules |-> sys_modules \cup {module_name},
         loaded |-> Append(loaded, [module_name |-> module_name, filename |-> filename]),
         raised |-> ~SourceOf(filename).loads,
         module |-> [name |-> module_name,
                     attributes |-> SourceOf(filename).attributes]]

\* the loop body of visit_and_analyze with the test of the view left out
AppendAlways(views, route, v) == Append(views, [route |-> route, view_func |-> v])

\* "if view := ...: route_views.append(FileRouteAndView(file_route, view))"
AppendRouteView(views, route, v) ==
    IF v # NoView THEN Append(views, [route |-> route, view_func |-> v])
    ELSE views

\* One pass of the loop body of visit_and_analyze: the generator yields its
\* next route, the file is imported, inspected and analyzed. An exception of
\* the import leaves the loop and the method.
VisitAndAnalyze ==
    /\ pc = "walk"
    /\ pending # <<>>
    /\ LET route == Head(pending)
           imported == import_filename_and_guess_module_from_path(route.filename)
           inspected_module == inspect_module(imported.module)
           r == analyze(framework, route, inspected_module)
       IN  /\ yielded' = Append(yielded, route)
           /\ pending' = Tail(pending)
           /\ file_route' = route
           /\ sys_modules' = imported.sys_modules
           /\ loaded' = imported.loaded
           /\ IF imported.raised
              THEN /\ pc' = "raised"
                   /\ inspected' = NoModule
                   /\ view' = NoView
                   /\ UNCHANGED <<route_views, discarded>>
              ELSE /\ pc' = "walk"
                   /\ inspected' = [inspected_module EXCEPT !.warnings = r.warnings]
                   /\ view' = r.view
                   /\ route_views' = AppendRouteView(route_views, route, r.view)
                   /\ discarded' =
                          discarded \o r.discarded \o
                          (IF r.view = NoView
                           THEN <<CheckWarning("W004", route.name)>>
                           ELSE <<>>)
    /\ UNCHANGED <<framework, extensions, fs, todo, last, source, routes, candidate_names>>

\* the generator is exhausted: "return route_views"
Return == WalkDone

\* the files the walk of visit_and_analyze meets in the last directory
SmallNames == {F_normal, F_str, F_index}

Init ==
    /\ framework \in Frameworks
    /\ extensions = {T_py}
    /\ pc = "walk"
    /\ fs \in Trees(SmallNames)
    /\ source \in [{os_path_join(<<DirPath(fs.chain, Len(fs.chain)), fs.leaf[i]>>) :
                       i \in 1..Len(fs.leaf)} -> Sources]
    /\ todo = <<Directory>>
    /\ pending = <<>>
    /\ yielded = <<>>
    /\ last = NoVisit
    /\ discarded = <<>>
    /\ route_views = <<>>
    /\ sys_modules = {}
    /\ loaded = <<>>
    /\ routes = <<>>
    /\ IdleResolve
    /\ IdleExpand

Next ==
    \/ WalkDirectory /\ UNCHANGED <<analyzeVars, resolveVars, expandVars>>
    \/ VisitAndAnalyze /\ UNCHANGED expandVars
    \/ Return /\ UNCHANGED <<analyzeVars, resolveVars, expandVars>>

Spec == Init /\ [][Next]_vars

(***************************************************************************)
(* Claims about visit_and_analyze                                          *)
(***************************************************************************)
\* whether the adapter's analyze finds a view in the file of route r
AnalyzeFindsView(r) ==
    analyze(framework, r,
            inspect_module([name |-> filename_to_module_path(r.filename),
                            attributes |-> SourceOf(r.filename).attributes])).view
        # NoView

\* the routes of a list of FileRouteAndView
RoutesOf(views) == [i \in 1..Len(views) |-> views[i].route]

\* C10: as long as no file fails to load, the list visit_and_analyze builds is
\* exactly the routes yielded so far in which analyze finds a view, in the
\* order in which the walker yielded them: a file without a view is left out
\* and does not stop the loop. When the method returns, every file of the
\* tree has been yielded and loaded.
C10_ResultIsRoutesWithView ==
    pc # "raised" =>
        /\ RoutesOf(route_views) = SelectSeq(yielded, AnalyzeFindsView)
        /\ \A i \in 1..Len(route_views) : route_views[i].view_func # NoView
        /\ pc = "done" =>
               \A d \in Directories(fs) :
                   \A k \in 1..Len(Listing(fs, d).filenames) :
                       LET f == Listing(fs, d).filenames[k]
                       IN  Split(f, ".") # <<S_init, T_py>> =>
                               /\ \E i \in 1..Len(yielded) :
                                      yielded[i].filename = os_path_join(<<d, f>>)
                               /\ filename_to_module_path(os_path_join(<<d, f>>))
                                      \in sys_modules

\* C10 witness: the last directory lists a file without a view and then a
\* file with one; the method has returned, the first is not in the result and
\* the second is.
C10_Witness ==
    /\ pc = "done"
    /\ Listing(fs, last.directory).filenames = <<F_normal, F_index>>
    /\ SourceOf(os_path_join(<<last.directory, F_normal>>)) = SRC_not_function
    /\ SourceOf(os_path_join(<<last.directory, F_index>>)) = SRC_function
    /\ Len(route_views) > 0
    /\ route_views[Len(route_views)].route.filename = os_path_join(<<last.directory, F_index>>)
    /\ \A i \in 1..Len(route_views) :
           route_views[i].route.filename # os_path_join(<<last.directory, F_normal>>)


\* the files met so far whose execution raised
FailedLoads == {i \in 1..Len(yielded) : ~SourceOf(yielded[i].filename).loads}

\* C11: a source file that fails to load ends the whole pass. The exception
\* leaves visit_and_analyze at that file: the loop goes no further, the
\* method never reaches its return, so the routes resolved before the broken
\* file are not handed back either, and no diagnostic is built for the file.
\* After the exception nothing of the pass runs any more.
C11_LoadFailureIsFatal ==
    /\ [](\A i \in FailedLoads :
              /\ pc = "raised"
              /\ i = Len(yielded)
              /\ inspected = NoModule
              /\ \A j \in 1..Len(discarded) :
                     discarded[j].code = "W004" => discarded[j].about # yielded[i].name
              /\ \A j \in 1..Len(route_views) : route_views[j].route # yielded[i])
    /\ [](pc = "done" => FailedLoads = {})
    /\ [][pc # "raised"]_vars

\* C11 witness: the last directory lists a file with a view and then a file
\* that fails to load; the first was resolved into route_views and the pass
\* has ended with the exception of the second.
C11_Witness ==
    /\ pc = "raised"
    /\ Listing(fs, last.directory).filenames = <<F_normal, F_index>>
    /\ SourceOf(os_path_join(<<last.directory, F_normal>>)) = SRC_function
    /\ SourceOf(os_path_join(<<last.directory, F_index>>)) = SRC_broken
    /\ Len(route_views) > 0
    /\ route_views[Len(route_views)].route.filename = os_path_join(<<last.directory, F_normal>>)
    /\ yielded[Len(yielded)].filename = os_path_join(<<last.directory, F_index>>)

\* sequence s is a prefix of sequence t
IsPrefix(s, t) == Len(s) <= Len(t) /\ SubSeq(t, 1, Len(s)) = s

\* C18: every diagnostic of the pass is recorded in a sink that can be read
\* afterwards. No CheckWarning is constructed and dropped; a route in which
\* no view was found has its W004 in the warnings of its module; and the
\* warnings of a module only grow.
C18_EveryDiagnosticRecorded ==
    /\ [](discarded = <<>>)
    /\ []((pc = "walk" /\ file_route # NoRoute /\ view = NoView) =>
              \E j \in 1..Len(inspected.warnings) : inspected.warnings[j].code = "W004")
    /\ [][(inspected # NoModule /\ inspected' # NoModule /\ inspected'.name = inspected.name)
              => IsPrefix(inspected.warnings, inspected'.warnings)]_vars

(***************************************************************************)
(* The loads of one process: import_filename_and_guess_module_from_path    *)
(* called on one file after another, the same file possibly again.         *)
(***************************************************************************)
MaxLoads == 3

D_a == <<"a">>
D_b == <<"b">>
D_a_dot_b == <<"a", ".", "b">>
F_c == <<"c", ".", "p", "y">>

\* source files of one tree, one of them under a directory with a dot in
\* its name
LoadPaths ==
    {os_path_join(<<Directory, F_c>>),
     os_path_join(<<Directory, D_a, F_c>>),
     os_path_join(<<Directory, D_a, D_b, F_c>>),
     os_path_join(<<Directory, D_a_dot_b, F_c>>)}

InitLoad ==
    /\ framework = "django"
    /\ pc = "load"
    /\ source \in [LoadPaths -> {SRC_function, SRC_broken}]
    /\ route_views = <<>>
    /\ sys_modules = {}
    /\ loaded = <<>>
    /\ routes = <<>>
    /\ IdleWalk
    /\ IdleResolve
    /\ IdleExpand

\* one call of import_filename_and_guess_module_from_path; whether it returns
\* the module or raises, the process goes on
Load ==
    /\ pc = "load"
    /\ Len(loaded) < MaxLoads
    /\ \E filename \in LoadPaths :
           LET imported == import_filename_and_guess_module_from_path(filename)
           IN  /\ sys_modules' = imported.sys_modules
               /\ loaded' = imported.loaded
    /\ UNCHANGED <<framework, pc, source, route_views, routes>>

NextLoad == Load /\ UNCHANGED <<walkVars, resolveVars, expandVars>>

SpecLoad == InitLoad /\ [][NextLoad]_vars

(***************************************************************************)
(* Claims about the loads                                                  *)
(***************************************************************************)
\* C15: two loads of two different source paths never use the same module
\* identity, whatever the directory names.
C15_DistinctPathsDistinctIdentities ==
    \A i, j \in 1..Len(loaded) :
        loaded[i].filename # loaded[j].filename =>
            loaded[i].module_name # loaded[j].module_name

\* C16: over any sequence of loads no identity is written to the registry
\* twice and no file is executed twice (a second load of a path does
\* neither), and no entry of the registry is ever removed.
C16_RegistryWrittenOncePerIdentity ==
    /\ [](\A i, j \in 1..Len(loaded) :
              i # j => /\ loaded[i].module_name # loaded[j].module_name
                       /\ loaded[i].filename # loaded[j].filename)
    /\ [][sys_modules \subseteq sys_modules']_vars

\* C23: a load whose file fails while it is executed leaves the registry as
\* it was before the call: no entry is added for the identity of the file.
C23_FailedLoadLeavesRegistryAsItWas ==
    [][(/\ Len(loaded') = Len(loaded) + 1
        /\ ~SourceOf(loaded'[Len(loaded')].filename).loads)
           => sys_modules' = sys_modules]_vars

\* What the loads do to the registry: the identity of every file loaded so
\* far is registered, whether its execution failed or not.
EveryLoadStaysRegistered ==
    \A i \in 1..Len(loaded) : loaded[i].module_name \in sys_modules

(***************************************************************************)
(* Assembling the URL pattern of a resolved route: create_path_from_module *)
(* of django_fs_routes, which reads the overrides from the module, and the *)
(* loop body of file_routes' autodiscover, which reads them from the view. *)
(***************************************************************************)
A_route_kwargs == <<"r", "o", "u", "t", "e", "_", "k", "w", "a", "r", "g", "s">>

\* the kinds of values an override may be bound to
OverrideValues == {"NoneType", "str", "zero", "int", "empty_list", "dict", "list"}

\* isinstance(value, dict); "empty_dict" is the {} of the defaults
IsDict(value) == value \in {"dict", "empty_dict"}

\* bool(value)
Truthy(value) == value \in {"str", "int", "dict", "list"}

\* the objects with any of the two overrides bound to any value
WithOverrides ==
    UNION {[names -> OverrideValues] : names \in SUBSET {A_route_name, A_route_kwargs}}

\* getattr(object, name, default)
GetAttr(attributes, name, default) ==
    IF name \in DOMAIN attributes THEN attributes[name] ELSE default

InitAssemble ==
    /\ framework = "django"
    /\ pc = "resolved"
    /\ file_route = RootRoute(framework, F_home)
    /\ inspected \in {inspect_module([name |-> filename_to_module_path(file_route.filename),
                                      attributes |-> a]) : a \in WithOverrides}
    /\ view \in {[kind |-> "function", name |-> A_view, attributes |-> a] :
                    a \in WithOverrides}
    /\ candidate_names = <<>>
    /\ discarded = <<>>
    /\ extensions = {T_py}
    /\ fs = <<>>
    /\ todo = <<>>
    /\ pending = <<>>
    /\ yielded = <<>>
    /\ last = NoVisit
    /\ IdleAnalyze
    /\ IdleExpand

\* django_fs_routes.routes.create_path_from_module(route, module, view)
CreatePathFromModule ==
    /\ pc = "resolved"
    /\ LET found_kwargs == GetAttr(inspected.attributes, A_route_kwargs, "empty_dict")
           kwargs_ok == IsDict(found_kwargs)
           route_kwargs == IF kwargs_ok THEN found_kwargs ELSE "empty_dict"
           found_name == GetAttr(inspected.attributes, A_route_name, "NoneType")
           name_bad == Truthy(found_name) /\ found_name # "str"
           route_name == IF name_bad THEN "NoneType" ELSE found_name
       IN  /\ discarded' =
                  discarded
                  \o (IF kwargs_ok THEN <<>> ELSE <<CheckWarning("W006", A_route_kwargs)>>)
                  \o (IF name_bad THEN <<CheckWarning("W007", A_route_name)>> ELSE <<>>)
           /\ routes' = Append(routes, [route |-> file_route.name, view |-> view.name,
                                        kwargs |-> route_kwargs, name |-> route_name])
    /\ pc' = "created"
    /\ UNCHANGED <<framework, file_route, inspected, view, candidate_names>>

\* the loop body of file_routes.frameworks.django.autodiscover
AutodiscoverAppend ==
    /\ pc = "resolved"
    /\ routes' = Append(routes,
                        [route |-> file_route.name, view |-> view.name,
                         kwargs |-> GetAttr(view.attributes, A_route_kwargs, "empty_dict"),
                         name |-> GetAttr(view.attributes, A_route_name, "NoneType")])
    /\ pc' = "appended"
    /\ UNCHANGED <<framework, file_route, inspected, view, candidate_names, discarded>>

NextAssemble ==
    \/ CreatePathFromModule
         /\ UNCHANGED <<extensions, fs, todo, pending, yielded, last>>
         /\ UNCHANGED <<source, route_views, sys_modules, loaded, expandVars>>
    \/ AutodiscoverAppend
         /\ UNCHANGED <<extensions, fs, todo, pending, yielded, last>>
         /\ UNCHANGED <<source, route_views, sys_modules, loaded, expandVars>>

SpecAssemble == InitAssemble /\ [][NextAssemble]_vars

(***************************************************************************)
(* Claims about the assembly of a route                                    *)
(***************************************************************************)
\* the object whose overrides the assembly that ran has read
OverridesRead ==
    IF pc = "created" THEN inspected.attributes ELSE view.attributes

\* C17: once the route is assembled, a route_name override bound to anything
\* but a string (None apart, which means no override) has not reached path():
\* the name handed over is None and a diagnostic about route_name was built;
\* a route_kwargs bound to anything but a dict was replaced by the empty
\* dict, with a diagnostic about route_kwargs.
C17_BadOverridesNeverReachFramework ==
    pc \in {"created", "appended"} =>
        LET entry == routes[Len(routes)]
            about(a) == \E j \in 1..Len(discarded) : discarded[j].about = a
        IN  /\ (/\ A_route_name \in DOMAIN OverridesRead
                /\ OverridesRead[A_route_name] \notin {"str", "NoneType"}) =>
                   (entry.name = "NoneType" /\ about(A_route_name))
            /\ (/\ A_route_kwargs \in DOMAIN OverridesRead
                /\ OverridesRead[A_route_kwargs] # "dict") =>
                   (entry.kwargs = "empty_dict" /\ about(A_route_kwargs))
            /\ entry.name \in {"str", "NoneType"}
            /\ IsDict(entry.kwargs)

(***************************************************************************)
(* InspectedModuleInfo.find_class_by_name(candidates, issubclass_of=View)  *)
(* called on its own, on every module over the candidate names and every   *)
(* short list of candidates.                                               *)
(***************************************************************************)
MaxCandidates == 2

A_HomeView == <<"H", "o", "m", "e", "V", "i", "e", "w">>
A_PageView == <<"P", "a", "g", "e", "V", "i", "e", "w">>

ClassCandidates == {A_HomeView, A_PageView, A_View}

InitFindClass ==
    /\ framework = "django"
    /\ pc = "search"
    /\ file_route = NoRoute
    /\ inspected \in {inspect_module([name |-> <<"r", ".", "h", "o", "m", "e">>, attributes |-> a]) :
                         a \in UNION {[S -> Values] : S \in SUBSET ClassCandidates}}
    /\ view = NoView
    /\ candidate_names \in Listings(ClassCandidates, MaxCandidates)
    /\ IdleWalk
    /\ IdleAnalyze
    /\ IdleExpand

FindClassByName ==
    /\ pc = "search"
    /\ LET r == find_class_by_name(inspected.attributes, candidate_names, inspected.warnings)
       IN  /\ view' = r.view
           /\ inspected' = [inspected EXCEPT !.warnings = r.warnings]
    /\ pc' = "searched"
    /\ UNCHANGED <<framework, file_route, candidate_names>>

NextFindClass == FindClassByName /\ UNCHANGED <<walkVars, analyzeVars, expandVars>>

SpecFindClass == InitFindClass /\ [][NextFindClass]_vars

(***************************************************************************)
(* Claims about find_class_by_name                                         *)
(***************************************************************************)
\* the position of the first candidate bound to a strict subclass of the
\* required base, 0 if there is none
FirstQualifying ==
    LET hits == {i \in 1..Len(candidate_names) :
                    Get(inspected.attributes, candidate_names[i]) = "subclass"}
    IN  IF hits = {} THEN 0 ELSE CHOOSE i \in hits : \A j \in hits : i <= j

\* the candidates the search looks at: those up to the first qualifying one
Examined ==
    IF FirstQualifying = 0 THEN candidate_names
    ELSE SubSeq(candidate_names, 1, FirstQualifying - 1)

RECURSIVE DiagnosticsFor(_, _)
\* the diagnostics due for a list of candidates, in order: none for a missing
\* attribute or the base itself, W003 for a class that is no subclass, W002
\* for a value that is no class; none_is_a_value says whether a candidate
\* bound to None counts as a value that is no class
DiagnosticsFor(names, none_is_a_value) ==
    IF names = <<>> THEN <<>>
    ELSE LET c == Head(names)
             bound == c \in DOMAIN inspected.attributes
             v == Get(inspected.attributes, c)
             due == IF ~bound \/ v \in {"View", "subclass"} THEN <<>>
                    ELSE IF v = "class" THEN <<CheckWarning("W003", c)>>
                    ELSE IF v = "NoneType" /\ ~none_is_a_value THEN <<>>
                    ELSE <<CheckWarning("W002", c)>>
         IN  due \o DiagnosticsFor(Tail(names), none_is_a_value)

\* what the search returns according to the order of the candidates
FirstQualifyingView ==
    IF FirstQualifying = 0 THEN NoView
    ELSE [kind |-> "class", name |-> candidate_names[FirstQualifying]]

\* C20: find_class_by_name returns the first candidate, in list order, bound
\* to a strict subclass of the base, none if there is no such candidate; on
\* its way it adds one W003 for each class that is no subclass, one W002 for
\* each value that is no class (None is such a value), nothing for the base
\* itself, and goes on to the next candidate each time.
C20_FirstStrictSubclass ==
    pc = "searched" =>
        /\ view = FirstQualifyingView
        /\ inspected.warnings = DiagnosticsFor(Examined, TRUE)

\* What find_class_by_name does guarantee: the same, with a candidate bound
\* to None passed over like a missing attribute.
FindClassPassesOverNone ==
    pc = "searched" =>
        /\ view = FirstQualifyingView
        /\ inspected.warnings = DiagnosticsFor(Examined, FALSE)

(***************************************************************************)
(* InspectedModuleInfo.get_attribute_by_type called on its own. The module *)
(* object has the attributes of its __dict__, which inspect_module copies, *)
(* and may serve further names through a module-level __getattr__, which   *)
(* dir() does not list; "raises" is a __getattr__ that raises something    *)
(* other than AttributeError for the name.                                 *)
(***************************************************************************)
AttributeValues == {"NoneType", "str", "int", "dict"}

AttributeNames == {A_route_name, A_route_kwargs}

\* the modules: each name is absent, bound in __dict__, or served lazily
LazyModules ==
    {[name |-> <<"r", ".", "h", "o", "m", "e">>, attributes |-> a, lazy |-> l] :
        a \in UNION {[S -> AttributeValues] : S \in SUBSET AttributeNames},
        l \in UNION {[S -> AttributeValues \cup {"raises"}] :
                        S \in SUBSET AttributeNames}}

\* getattr(module, attribute, default): __dict__ first, then __getattr__
getattr(module, attribute, default) ==
    IF attribute \in DOMAIN module.attributes THEN module.attributes[attribute]
    ELSE IF attribute \in DOMAIN module.lazy THEN module.lazy[attribute]
    ELSE default

\* isinstance(value, attribute_type); "default" is a default of that type
isinstance(value, attribute_type) == value = attribute_type \/ value = "default"

\* InspectedModuleInfo(module=module, attributes=attributes) of inspect_module
\* with its module field, which get_attribute_by_type alone reads
InspectedModuleInfo(module) == inspect_module(module) @@ [module |-> module]

\* InspectedModuleInfo.get_attribute_by_type: the value returned, the
\* CheckWarning it constructs and the warnings list after the call
get_attribute_by_type(info, attribute, attribute_type, default) ==
    LET route_kwargs == getattr(info.module, attribute, default)
    IN  IF route_kwargs = "raises"
        THEN [raised |-> TRUE, value |-> "none", discarded |-> <<>>,
              warnings |-> info.warnings]
        ELSE IF ~isinstance(route_kwargs, attribute_type)
        THEN [raised |-> FALSE, value |-> default,
              discarded |-> <<CheckWarning("W006", attribute)>>,
              warnings |-> info.warnings]
        ELSE [raised |-> FALSE, value |-> route_kwargs, discarded |-> <<>>,
              warnings |-> info.warnings]

InitGetAttribute ==
    /\ framework = "flask"
    /\ pc = "inspected"
    /\ file_route = NoRoute
    /\ inspected \in {InspectedModuleInfo(m) : m \in LazyModules}
    /\ view = NoView
    /\ candidate_names \in {<<a>> : a \in AttributeNames}
    /\ IdleWalk
    /\ IdleAnalyze
    /\ IdleExpand

\* one call get_attribute_by_type(attribute, attribute_type, default) with a
\* default of the expected type or None
GetAttributeByType ==
    /\ pc = "inspected"
    /\ \E attribute_type \in {"str", "dict"}, default \in {"default", "NoneType"} :
           LET r == get_attribute_by_type(inspected, candidate_names[1],
                                          attribute_type, default)
           IN  /\ view' = [kind |-> "attribute", attribute_type |-> attribute_type,
                           default |-> default, raised |-> r.raised,
                           value |-> r.value]
               /\ inspected' = [inspected EXCEPT !.warnings = r.warnings]
               /\ discarded' = discarded \o r.discarded
    /\ pc' = "got"
    /\ UNCHANGED <<framework, file_route, candidate_names>>

NextGetAttribute ==
    GetAttributeByType
        /\ UNCHANGED <<extensions, fs, todo, pending, yielded, last>>
        /\ UNCHANGED <<analyzeVars, expandVars>>

SpecGetAttribute == InitGetAttribute /\ [][NextGetAttribute]_vars

(***************************************************************************)
(* Claims about get_attribute_by_type                                      *)
(***************************************************************************)
\* what the snapshot taken at load time holds for the attribute asked for
SnapshotValue ==
    IF candidate_names[1] \in DOMAIN inspected.attributes
    THEN inspected.attributes[candidate_names[1]]
    ELSE "absent"

\* C21: get_attribute_by_type never raises; it returns the snapshot's value
\* when the snapshot holds the attribute with a value of the expected type;
\* in every other case it returns the default and a W006 diagnostic about
\* the attribute is in the warnings of the inspected module.
C21_SnapshotValueOrDefaultWithDiagnostic ==
    pc = "got" =>
        /\ ~view.raised
        /\ IF SnapshotValue = view.attribute_type
           THEN view.value = SnapshotValue
           ELSE /\ view.value = view.default
                /\ \E i \in 1..Len(inspected.warnings) :
                       inspected.warnings[i] = CheckWarning("W006", candidate_names[1])

\* The same call as the code performs it: the live module is read, with the
\* names its __getattr__ serves; a value of the expected type is returned
\* as it is, anything else gives the default; a call whose result is the
\* default object itself constructs no CheckWarning, and none is ever kept.
GetAttributeReadsLiveModule ==
    pc = "got" =>
        LET live == getattr(inspected.module, candidate_names[1], "absent")
        IN  /\ view.raised <=> live = "raises"
            /\ ~view.raised =>
                   /\ view.value = (IF live = view.attribute_type THEN live
                                    ELSE view.default)
                   /\ inspected.warnings = <<>>
                   /\ (discarded # <<>>) <=>
                          (/\ live # view.attribute_type
                           /\ ~(live = "absent" /\ view.default = "default"))

(***************************************************************************)
(* get_default_view_name on its own, on the route the walker builds for    *)
(* one file whose extension is one of the configured extensions.           *)
(***************************************************************************)
\* file stems: plain, with a hyphen, index, and two bracket forms
NameStems == {<<"h", "o", "m", "e">>, <<"w", "i", "t", "h", "-", "h", "y", "p", "h", "e", "n">>, S_index, <<"[", "s", "t", "r", "]">>, <<"[", "i", "n", "t", "_", "i", "d", "]">>}

\* DirectoryVisitor(extensions=[...]): extensions of two, three and four
\* characters
NameExtensions == {T_py, <<"m", "d">>, T_txt, <<"h", "t", "m", "l">>}

InitDefaultName ==
    /\ framework \in Frameworks
    /\ pc = "yielded"
    /\ extensions = NameExtensions
    /\ \E chain \in {<<>>, <<D_blog>>, <<D_username>>},
          stem \in NameStems, ext \in NameExtensions :
           LET directory == os_path_join(<<Directory>> \o chain)
               directory_route ==
                   directory_expand_converters(framework,
                                               From(directory, Len(Directory)))
           IN  file_route = visit_one_directory(framework, directory, directory_route,
                                                <<stem \o <<".">> \o ext>>,
                                                extensions).yields[1]
    /\ inspected = NoModule
    /\ view = NoView
    /\ candidate_names = <<>>
    /\ fs = <<>>
    /\ todo = <<>>
    /\ pending = <<>>
    /\ yielded = <<>>
    /\ last = NoVisit
    /\ discarded = <<>>
    /\ IdleAnalyze
    /\ IdleExpand

\* file_route.get_default_view_name() / get_default_view_name(view_route)
GetDefaultViewName ==
    /\ pc = "yielded"
    /\ view' = [kind |-> "default_view_name",
                name |-> get_default_view_name(file_route)]
    /\ pc' = "named"
    /\ UNCHANGED <<framework, file_route, inspected, candidate_names>>

NextDefaultName ==
    GetDefaultViewName /\ UNCHANGED <<walkVars, analyzeVars, expandVars>>

SpecDefaultName == InitDefaultName /\ [][NextDefaultName]_vars

(***************************************************************************)
(* Claims about get_default_view_name                                      *)
(***************************************************************************)
\* the file name of the route without its extension, and the extension
NamedStem == Split(basename(file_route.filename), ".")[1]
NamedExtension == Split(basename(file_route.filename), ".")[2]

\* the base name the convention gives to the route under analysis
ConventionBaseName ==
    IF file_route.name = <<>> \/ NamedStem = S_index THEN S_index
    ELSE IF ~file_route.is_wildcard THEN Replace(NamedStem, "-", "_")
    ELSE None

\* C22: get_default_view_name returns index when the route name is empty or
\* the file stem is index, otherwise the stem with hyphens as underscores
\* when the route is no wildcard, otherwise no base name; the stem is the
\* file name without its extension, whatever the length of the extension.
C22_DefaultViewNameFromStem ==
    pc = "named" => view.name = ConventionBaseName

\* The same statement for the files whose extension has two characters, as
\* py has: the three characters cut from the file name are the extension
\* and its dot.
DefaultViewNameFromStemOfTwoCharacterExtension ==
    (pc = "named" /\ Len(NamedExtension) = 2) => view.name = ConventionBaseName

\* With an extension of another length, what is cut is not the extension:
\* the base name of a route that is no wildcard and has a name is the file
\* name less its last three characters, so never the stem.
DefaultViewNameCutsThreeCharacters ==
    (pc = "named" /\ Len(NamedExtension) # 2 /\ file_route.name # <<>>) =>
        /\ ~file_route.is_wildcard =>
               /\ view.name = Replace(DropLast(basename(file_route.filename), 3), "-", "_")
               /\ view.name # ConventionBaseName
        /\ file_route.is_wildcard => view.name = None
====
